---- MODULE Spec2Model ----
(***************************************************************************)
(* The invoicing and discount-resolution core of nod/models.py.            *)
(*                                                                         *)
(* Units.  Money is held in pence (1/100 of the currency unit), rates      *)
(* (VAT, markup, discounts: two-decimal percentages) in 1/100 of a         *)
(* percent, durations in seconds and rounded hours in 1/100 of an hour.    *)
(* Python's round(x, 2) is RoundDiv: exact decimal arithmetic, a tie going *)
(* to the even neighbour.  The binary representation error of Python       *)
(* floats is not modelled.  Division is Python 3's true division.          *)
(*                                                                         *)
(* A Python call either returns a value or raises; an outcome is the       *)
(* record [ok, err, val, none]: ok = FALSE carries the exception class in  *)
(* err, none = TRUE is a returned None.                                    *)
(***************************************************************************)
EXTENDS Integers, Sequences, FiniteSets

VARIABLES
    price_controls, \* PriceControl rows: id -> [exists, is_deleted, vat, marked_up]
    customers,      \* Customer rows: id -> [kind, content_object, spent_this_month]
    parts,          \* Part rows: id -> [price, quantity]
    jobs,           \* Job rows with their JobTask and JobPart rows
    orders,         \* CustomerPartsOrder rows with their SellPart rows
    invoices,       \* Invoice rows, in creation order
    instances,      \* per invoice: the Python Invoice object's cached customer
    result          \* outcome of the last call

vars == <<price_controls, customers, parts, jobs, orders, invoices, instances, result>>

----------------------------------------------------------------------------
(* Bounds of the model *)

MaxInvoices == 2

\* get_price is not called on an invoice whose customer object already holds
\* MaxReprice times the invoice's grand total.
MaxReprice == 2

\* JobTask rows of a job.
MaxTasks == 2

\* Saves of one instance.
MaxSaves == 3

\* JobPart rows of a job.
MaxJobParts == 3

\* The quantity methods are followed while the quantity is within
\* -MaxQuantity..MaxQuantity.
MaxQuantity == 6

(* Program constants *)

\* AccountHolder.spent_this_month = models.FloatField(default=0)
DefaultSpent == 0

----------------------------------------------------------------------------
(* Identifiers.  0 is a null foreign key. *)

PCIds == {1, 2}
Customers == {1}
Parts == {1}
Jobs == {1}
Orders == {1}

\* Job.JOB_TYPE
JOB_TYPE == {"1", "2", "3"}

\* INVOICE_STATUS with the warning phase left out.
INVOICE_STATUS_NoWarning == {"1", "2", "3"}

\* Invoice.INVOICE_STATUS
INVOICE_STATUS == {"1", "2", "3", "4"}

\* Invoice.reminder_phase: default='1'
DefaultReminderPhase == "1"

\* The discount plan an AccountHolder's generic foreign key points at; model
\* "none" is a null content_object.
NoPlan ==
    [model |-> "none", discount |-> 0, mot_discount |-> 0, repair_discount |-> 0,
     annual_discount |-> 0, parts_discount |-> 0]

FixedDiscount(d) == [NoPlan EXCEPT !.model = "fixeddiscount", !.discount = d]

FlexibleDiscount(d) == [NoPlan EXCEPT !.model = "flexiblediscount", !.discount = d]

VariableDiscount(mot, repair, annual, prts) ==
    [NoPlan EXCEPT !.model = "variablediscount", !.mot_discount = mot,
                   !.repair_discount = repair, !.annual_discount = annual,
                   !.parts_discount = prts]

----------------------------------------------------------------------------
(* Outcomes of a call *)

Ok(v) == [ok |-> TRUE, err |-> "", val |-> v, none |-> FALSE]

Raise(e) == [ok |-> FALSE, err |-> e, val |-> 0, none |-> FALSE]

ReturnNone == [ok |-> TRUE, err |-> "", val |-> 0, none |-> TRUE]

\* round(n / d, 0) for d > 0: the nearest integer, a tie going to the even one.
RoundDiv(n, d) ==
    LET q == n \div d
        r == n % d
    IN  IF 2 * r < d THEN q
        ELSE IF 2 * r > d THEN q + 1
        ELSE IF q % 2 = 0 THEN q ELSE q + 1

RECURSIVE SumSeq(_)
SumSeq(s) == IF s = <<>> THEN 0 ELSE Head(s) + SumSeq(Tail(s))

----------------------------------------------------------------------------
(* PriceControl *)

\* PriceControl.objects.get(): the manager is Django's default one and the
\* call passes no filter, so soft-deleted rows count too.
PriceControlGet ==
    LET rows == {p \in PCIds : price_controls[p].exists}
    IN  IF rows = {} THEN Raise("DoesNotExist")
        ELSE IF Cardinality(rows) > 1 THEN Raise("MultipleObjectsReturned")
        ELSE [Ok(0) EXCEPT !.val = price_controls[CHOOSE p \in rows : TRUE]]

\* round(price + price * marked_up / 100, 2)
MarkedUp(price, marked_up) == RoundDiv(price * (10000 + marked_up), 10000)

\* get_markedup_price with the markup held at the 10.00 % the PriceControl
\* row is created with, whatever the row says now.
SellPartGetMarkedupPrice_MarkupCached(sp) ==
    LET pc == PriceControlGet
    IN  IF ~pc.ok THEN pc ELSE Ok(MarkedUp(parts[sp.part].price, 1000))

\* SellPart.get_markedup_price
SellPartGetMarkedupPrice(sp) ==
    LET pc == PriceControlGet
    IN  IF ~pc.ok THEN pc ELSE Ok(MarkedUp(parts[sp.part].price, pc.val.marked_up))

\* round(price * vat / 100, 2)
Vat(price, vat) == RoundDiv(price * vat, 10000)

----------------------------------------------------------------------------
(* CustomerPartsOrder *)

\* CustomerPartsOrder.get_parts_price: every SellPart row of the order
\* (sellpart_set.all()), each at its marked-up price.
OrderGetPartsPrice(o) ==
    LET sps == orders[o].sellparts
        pc == PriceControlGet
    IN  IF sps = <<>> THEN Ok(0)
        ELSE IF ~pc.ok THEN pc
        ELSE Ok(SumSeq([k \in 1..Len(sps) |->
                 SellPartGetMarkedupPrice(sps[k]).val * sps[k].quantity]))

\* CustomerPartsOrder.get_price
OrderGetPrice(o) == OrderGetPartsPrice(o)

\* CustomerPartsOrder.get_vat
OrderGetVat(o) ==
    LET pc == PriceControlGet
        price == OrderGetPrice(o)
    IN  IF ~pc.ok THEN pc
        ELSE IF ~price.ok THEN price
        ELSE Ok(Vat(price.val, pc.val.vat))

\* CustomerPartsOrder.get_grand_total
OrderGetGrandTotal(o) ==
    LET price == OrderGetPrice(o)
        vat == OrderGetVat(o)
    IN  IF ~price.ok THEN price
        ELSE IF ~vat.ok THEN vat
        ELSE Ok(price.val + vat.val)

----------------------------------------------------------------------------
(* Job *)

\* timedelta.seconds: the seconds of the duration within its last day.
Seconds(duration) == duration % 86400

\* Job.get_duration, in 1/100 hour: every JobTask row (jobtask_set.all()).
JobGetDuration(j) ==
    LET ts == jobs[j].jobtasks
    IN  RoundDiv(SumSeq([k \in 1..Len(ts) |-> Seconds(ts[k].duration)]), 36)

\* Job.get_labour_price
JobGetLabourPrice(j) == RoundDiv(JobGetDuration(j) * jobs[j].hourly_pay, 100)

\* get_parts_price charging each JobPart at the marked-up price, as
\* JobPart.get_cost does.
JobGetPartsPrice_MarkedUp(j) ==
    LET ps == jobs[j].jobparts
    IN  SumSeq([k \in 1..Len(ps) |->
                  SellPartGetMarkedupPrice(ps[k]).val * ps[k].quantity])

\* Job.get_parts_price: every JobPart row, each at the part's raw price.
JobGetPartsPrice(j) ==
    LET ps == jobs[j].jobparts
    IN  SumSeq([k \in 1..Len(ps) |-> parts[ps[k].part].price * ps[k].quantity])

\* Job.get_price
JobGetPrice(j) == JobGetLabourPrice(j) + JobGetPartsPrice(j)

\* Job.get_vat
JobGetVat(j) ==
    LET pc == PriceControlGet
    IN  IF ~pc.ok THEN pc ELSE Ok(Vat(JobGetPrice(j), pc.val.vat))

\* Job.get_grand_total
JobGetGrandTotal(j) ==
    LET vat == JobGetVat(j)
    IN  IF ~vat.ok THEN vat ELSE Ok(JobGetPrice(j) + vat.val)

----------------------------------------------------------------------------
(* Initial state: the rows the pricing calls read *)

Rates == {1000}

Plans ==
    {NoPlan} \cup {FixedDiscount(d) : d \in Rates}
             \cup {FlexibleDiscount(d) : d \in Rates}
             \cup {VariableDiscount(500, 700, 900, 1100)}

CustomerRows ==
    {[kind |-> "dropin", content_object |-> NoPlan, spent_this_month |-> DefaultSpent]}
    \cup {[kind |-> k, content_object |-> p, spent_this_month |-> DefaultSpent] :
            k \in {"accountholder", "businesscustomer"}, p \in Plans}

PriceControlRow(p, state) ==
    [exists |-> state # "absent", is_deleted |-> state = "deleted",
     vat |-> IF p = 1 THEN 2000 ELSE 1500,
     marked_up |-> IF p = 1 THEN 1000 ELSE 500]

Init ==
    /\ \E st \in [PCIds -> {"absent", "live", "deleted"}] :
          price_controls = [p \in PCIds |-> PriceControlRow(p, st[p])]
    /\ customers \in [Customers -> CustomerRows]
    /\ parts = [p \in Parts |-> [price |-> 1000, quantity |-> 5]]
    /\ \E t \in JOB_TYPE :
          jobs = [j \in Jobs |->
                    [type |-> t, status |-> "1", is_deleted |-> FALSE,
                     customer |-> 1, hourly_pay |-> 4000,
                     jobtasks |-> <<[duration |-> 9000, status |-> "1",
                                     is_deleted |-> FALSE]>>,
                     jobparts |-> <<[part |-> 1, quantity |-> 3,
                                     is_deleted |-> FALSE,
                                     sufficient_quantity |-> TRUE]>>]]
    /\ orders = [o \in Orders |->
                    [customer |-> 1, is_deleted |-> FALSE,
                     sellparts |-> <<[part |-> 1, quantity |-> 2,
                                      is_deleted |-> FALSE]>>]]
    /\ invoices = <<>>
    /\ instances = <<>>
    /\ result = [op |-> "init", inv |-> 0, ok |-> TRUE, err |-> "", val |-> 0,
                 none |-> FALSE, d |-> ""]

Outcome(op, i, r, d) ==
    [op |-> op, inv |-> i, ok |-> r.ok, err |-> r.err, val |-> r.val,
     none |-> r.none, d |-> d]

----------------------------------------------------------------------------
(* Invoice creation *)

\* Invoice.objects.create(job_done=j, part_order=o): both columns are
\* null=True and nothing relates them; each is a OneToOneField, so a second
\* invoice for the same job or order is refused by the unique index.
CreateInvoice(j, o) ==
    /\ Len(invoices) < MaxInvoices
    /\ IF \E k \in 1..Len(invoices) :
             \/ (j # 0 /\ invoices[k].job_done = j)
             \/ (o # 0 /\ invoices[k].part_order = o)
       THEN /\ result' = Outcome("create", 0, Raise("IntegrityError"), "")
            /\ UNCHANGED <<invoices, instances>>
       ELSE /\ invoices' = Append(invoices,
                  [job_done |-> j, part_order |-> o,
                   reminder_phase |-> DefaultReminderPhase,
                   paid |-> FALSE])
            /\ instances' = Append(instances,
                  [loaded |-> FALSE, spent_this_month |-> 0])
            /\ result' = Outcome("create", Len(invoices) + 1, Ok(0), "")
    /\ UNCHANGED <<price_controls, customers, parts, jobs, orders>>

\* Job.create_invoice: Invoice.objects.create(job=self).  Invoice has no field
\* or property named job, so Model.__init__ raises TypeError and no row is
\* written.
JobCreateInvoice(j) ==
    /\ result' = Outcome("create_invoice", 0, Raise("TypeError"), "")
    /\ UNCHANGED <<price_controls, customers, parts, jobs, orders, invoices, instances>>

----------------------------------------------------------------------------
(* Invoice: customer and discount resolution *)

\* Invoice.get_pre_discount_price: the job's grand total, else the order's,
\* else the method falls off its end (pass) and returns None.
InvoiceGetPreDiscountPrice(i) ==
    IF invoices[i].job_done # 0 THEN JobGetGrandTotal(invoices[i].job_done)
    ELSE IF invoices[i].part_order # 0
         THEN OrderGetGrandTotal(invoices[i].part_order)
    ELSE ReturnNone

\* Whether Invoice.get_customer takes the part_order branch, whose result is
\* part_order.content_object: Django keeps the related objects it has loaded
\* on the instance, so the same customer object comes back on every call.
UsesCachedCustomer(i) ==
    /\ invoices[i].job_done = 0
    /\ invoices[i].part_order # 0
    /\ orders[invoices[i].part_order].customer # 0

\* Invoice.get_customer on the Python object whose cache is inst.  For a job
\* the customer is read again from the database on every call
\* (Vehicle.get_customer, then BusinessCustomer / AccountHolder.objects.get).
InvoiceGetCustomer(i, inst) ==
    IF invoices[i].job_done # 0
    THEN [none |-> FALSE, row |-> customers[jobs[invoices[i].job_done].customer]]
    ELSE IF UsesCachedCustomer(i)
    THEN LET c == orders[invoices[i].part_order].customer
         IN  [none |-> FALSE,
              row |-> IF inst.loaded
                      THEN [customers[c] EXCEPT
                               !.spent_this_month = inst.spent_this_month]
                      ELSE customers[c]]
    ELSE [none |-> TRUE, row |-> CHOOSE r \in CustomerRows : TRUE]

\* The Invoice object after a get_customer call.
AfterGetCustomer(i, inst) ==
    IF UsesCachedCustomer(i) /\ ~inst.loaded
    THEN [loaded |-> TRUE,
          spent_this_month |->
              customers[orders[invoices[i].part_order].customer].spent_this_month]
    ELSE inst

\* get_discount stopping at its first lookup: any attached plan is 'fixed'.
InvoiceGetDiscount_FirstLookupOnly(i, inst) ==
    LET c == InvoiceGetCustomer(i, inst)
        plan == c.row.content_object.model
    IN  IF c.none \/ c.row.kind = "dropin"
        THEN [ok |-> FALSE, err |-> "AttributeError", d |-> ""]
        ELSE [ok |-> TRUE, err |-> "", d |-> IF plan = "none" THEN "none" ELSE "fixed"]

\* Invoice.get_discount: [ok, err, d].  content_object is an attribute of
\* AccountHolder only: reading it on None or on a Dropin raises.
InvoiceGetDiscount(i, inst) ==
    LET c == InvoiceGetCustomer(i, inst)
        plan == c.row.content_object.model
    IN  IF c.none \/ c.row.kind = "dropin"
        THEN [ok |-> FALSE, err |-> "AttributeError", d |-> ""]
        ELSE [ok |-> TRUE, err |-> "",
              d |-> IF plan = "fixeddiscount" THEN "fixed"
                    ELSE IF plan = "variablediscount" THEN "variable"
                    ELSE IF plan = "flexiblediscount" THEN "flexible"
                    ELSE "none"]

----------------------------------------------------------------------------
(* Invoice.get_price *)

\* The fixed branch taking its rate as a fraction: price -= price * discount
FixedPrice_RateAsFraction(price, discount) ==
    RoundDiv(price * 10000 - price * discount * 100, 10000)

\* The fixed branch: price -= price * discount / 100; round(price, 2)
FixedPrice(price, discount) == RoundDiv(price * 10000 - price * discount, 10000)

\* The variable branch with the repair and annual rates exchanged.
VariableRate_RepairAnnualSwapped(i, plan) ==
    IF invoices[i].job_done # 0
    THEN LET t == jobs[invoices[i].job_done].type
         IN  IF t = "1" THEN plan.mot_discount
             ELSE IF t = "2" THEN plan.annual_discount
             ELSE plan.repair_discount
    ELSE plan.parts_discount

\* The variable branch: the rate of the job's type, or of a parts order.
VariableRate(i, plan) ==
    IF invoices[i].job_done # 0
    THEN LET t == jobs[invoices[i].job_done].type
         IN  IF t = "1" THEN plan.mot_discount
             ELSE IF t = "2" THEN plan.repair_discount
             ELSE plan.annual_discount
    ELSE plan.parts_discount

\* The variable branch: price -= price * discount / 100; round(price, 2)
VariablePrice(price, discount) == RoundDiv(price * 10000 - price * discount, 10000)

\* The flexible branch's return value: round(price, 2)
FlexiblePrice(price, discount) == price

\* The flexible branch's side effect, on the object get_customer returns:
\* self.get_customer().spent_this_month += price.  Nothing saves the object.
FlexibleSpend(i, inst, price) ==
    IF UsesCachedCustomer(i)
    THEN [inst EXCEPT !.spent_this_month = @ + price]
    ELSE inst

\* Invoice.get_price on the Python object whose cache is inst:
\* [out |-> the outcome, inst |-> the object afterwards].
InvoiceGetPrice(i, inst) ==
    LET price == InvoiceGetPreDiscountPrice(i)
        d == InvoiceGetDiscount(i, inst)
        inst1 == AfterGetCustomer(i, inst)
        plan == InvoiceGetCustomer(i, inst1).row.content_object
    IN  IF ~price.ok THEN [out |-> price, inst |-> inst]
        ELSE IF ~d.ok THEN [out |-> Raise(d.err), inst |-> inst1]
        ELSE IF d.d = "none" THEN [out |-> Ok(price.val), inst |-> inst1]
        ELSE IF d.d = "fixed"
        THEN [out |-> Ok(FixedPrice(price.val, plan.discount)), inst |-> inst1]
        ELSE IF d.d = "variable"
        THEN [out |-> Ok(VariablePrice(price.val, VariableRate(i, plan))),
              inst |-> inst1]
        ELSE [out |-> Ok(FlexiblePrice(price.val, plan.discount)),
              inst |-> FlexibleSpend(i, inst1, price.val)]

\* Invoice.discount_value: float(get_pre_discount_price()) - float(get_price())
InvoiceDiscountValue(i, inst) ==
    LET pre == InvoiceGetPreDiscountPrice(i)
        p == InvoiceGetPrice(i, inst)
    IN  IF ~pre.ok THEN [out |-> pre, inst |-> inst]
        ELSE IF pre.none THEN [out |-> Raise("TypeError"), inst |-> inst]
        ELSE IF ~p.out.ok THEN p
        ELSE [out |-> Ok(pre.val - p.out.val), inst |-> p.inst]

----------------------------------------------------------------------------
(* The calls on an invoice *)

InvoiceIds == 1..Len(invoices)

GetPreDiscountPrice(i) ==
    /\ result' = Outcome("get_pre_discount_price", i, InvoiceGetPreDiscountPrice(i), "")
    /\ UNCHANGED <<price_controls, customers, parts, jobs, orders, invoices, instances>>

GetCustomer(i) ==
    LET c == InvoiceGetCustomer(i, instances[i])
    IN  /\ result' = Outcome("get_customer", i,
                        IF c.none THEN ReturnNone
                        ELSE IF c.row.kind = "dropin" THEN Ok(0)
                        ELSE Ok(c.row.spent_this_month),
                        IF c.none THEN "" ELSE c.row.kind)
        /\ instances' = [instances EXCEPT ![i] = AfterGetCustomer(i, @)]
        /\ UNCHANGED <<price_controls, customers, parts, jobs, orders, invoices>>

GetDiscount(i) ==
    LET d == InvoiceGetDiscount(i, instances[i])
    IN  /\ result' = Outcome("get_discount", i,
                        IF d.ok THEN Ok(0) ELSE Raise(d.err), d.d)
        /\ instances' = [instances EXCEPT ![i] = AfterGetCustomer(i, @)]
        /\ UNCHANGED <<price_controls, customers, parts, jobs, orders, invoices>>

\* The customer object an invoice holds stays within MaxReprice grand totals
\* of the stored accumulator.
WithinReprice(i, inst) ==
    LET pre == InvoiceGetPreDiscountPrice(i)
    IN  UsesCachedCustomer(i) /\ inst.loaded /\ pre.ok /\ ~pre.none =>
          inst.spent_this_month <=
             customers[orders[invoices[i].part_order].customer].spent_this_month
               + MaxReprice * pre.val

GetPrice(i) ==
    LET p == InvoiceGetPrice(i, instances[i])
    IN  /\ WithinReprice(i, p.inst)
        /\ result' = Outcome("get_price", i, p.out, "")
        /\ instances' = [instances EXCEPT ![i] = p.inst]
        /\ UNCHANGED <<price_controls, customers, parts, jobs, orders, invoices>>

DiscountValue(i) ==
    LET p == InvoiceDiscountValue(i, instances[i])
    IN  /\ WithinReprice(i, p.inst)
        /\ result' = Outcome("discount_value", i, p.out, "")
        /\ instances' = [instances EXCEPT ![i] = p.inst]
        /\ UNCHANGED <<price_controls, customers, parts, jobs, orders, invoices>>

----------------------------------------------------------------------------
(* Invoice lifecycle.  models.py declares reminder_phase and paid; the       *)
(* operations that move them are specified in the design (section 4.4).     *)

PhaseNumber(phase) ==
    IF phase = "1" THEN 1 ELSE IF phase = "2" THEN 2 ELSE IF phase = "3" THEN 3 ELSE 4

PhaseName(n) ==
    IF n = 1 THEN "1" ELSE IF n = 2 THEN "2" ELSE IF n = 3 THEN "3"
    ELSE IF n = 4 THEN "4" ELSE "5"

\* The phase after `phase`: the next of the model's choices, the last one staying.
NextPhase(phase) ==
    LET next == PhaseName(PhaseNumber(phase) + 1)
    IN  IF next \in INVOICE_STATUS THEN next ELSE phase

\* advance_reminder without the test of the paid flag.
AdvanceReminder_IgnoresPaid(i) ==
    LET moves == NextPhase(invoices[i].reminder_phase) # invoices[i].reminder_phase
    IN  /\ invoices' = IF moves
                       THEN [invoices EXCEPT ![i].reminder_phase = NextPhase(@)]
                       ELSE invoices
        /\ result' = Outcome("advance_reminder", i, Ok(IF moves THEN 1 ELSE 0), "")
        /\ UNCHANGED <<price_controls, customers, parts, jobs, orders, instances>>

\* advance_reminder: a no-op on a paid invoice and at the warning phase;
\* val tells whether the phase moved.
AdvanceReminder(i) ==
    LET moves == /\ ~invoices[i].paid
                 /\ NextPhase(invoices[i].reminder_phase) # invoices[i].reminder_phase
    IN  /\ invoices' = IF moves
                       THEN [invoices EXCEPT ![i].reminder_phase = NextPhase(@)]
                       ELSE invoices
        /\ result' = Outcome("advance_reminder", i, Ok(IF moves THEN 1 ELSE 0), "")
        /\ UNCHANGED <<price_controls, customers, parts, jobs, orders, instances>>

\* mark_paid: accepted in every phase.
MarkPaid(i) ==
    /\ invoices' = [invoices EXCEPT ![i].paid = TRUE]
    /\ result' = Outcome("mark_paid", i, Ok(0), "")
    /\ UNCHANGED <<price_controls, customers, parts, jobs, orders, instances>>

Next ==
    \/ \E j \in Jobs \cup {0}, o \in Orders \cup {0} : CreateInvoice(j, o)
    \/ \E j \in Jobs : JobCreateInvoice(j)
    \/ \E i \in InvoiceIds : GetPreDiscountPrice(i)
    \/ \E i \in InvoiceIds : GetCustomer(i)
    \/ \E i \in InvoiceIds : GetDiscount(i)
    \/ \E i \in InvoiceIds : GetPrice(i)
    \/ \E i \in InvoiceIds : DiscountValue(i)

Spec == Init /\ [][Next]_vars

\* The lifecycle of the invoices of one garage: a single live PriceControl, an
\* account holder on a fixed plan, an MOT job.
InitLifecycle ==
    /\ Init
    /\ price_controls = [p \in PCIds |->
                           PriceControlRow(p, IF p = 1 THEN "live" ELSE "absent")]
    /\ customers = [c \in Customers |->
                      [kind |-> "accountholder", content_object |-> FixedDiscount(1000),
                       spent_this_month |-> DefaultSpent]]
    /\ jobs[1].type = "1"

NextLifecycle ==
    \/ \E j \in Jobs \cup {0}, o \in Orders \cup {0} : CreateInvoice(j, o)
    \/ \E i \in InvoiceIds : AdvanceReminder(i)
    \/ \E i \in InvoiceIds : MarkPaid(i)

SpecLifecycle == InitLifecycle /\ [][NextLifecycle]_vars

----------------------------------------------------------------------------
(* Job status.  update_status assigns the status of the Job instance it is  *)
(* called on; jobs[j].status is that instance's field.                      *)

JOB_STATUS == {"1", "2", "3"}

TASK_STATUS == {"1", "2", "3"}

\* The loop of update_status with its test on the first row only.
JobTasksComplete_FirstRowOnly(ts) ==
    LET live == SelectSeq(ts, LAMBDA t : ~t.is_deleted)
    IN  live = <<>> \/ live[1].status = "1"

\* The loop of update_status: no row of jobtask_set.filter(is_deleted=False)
\* has a status other than '1'.
JobTasksComplete(ts) ==
    LET live == SelectSeq(ts, LAMBDA t : ~t.is_deleted)
    IN  \A k \in 1..Len(live) : live[k].status = "1"

\* Job.update_status: the status the call leaves on the job and returns.
JobUpdateStatus(job) == IF JobTasksComplete(job.jobtasks) THEN "1" ELSE job.status

\* The JobTask rows a job can have: up to MaxTasks rows of any status, live or
\* soft-deleted.
JobTaskRows == [duration : {9000}, status : TASK_STATUS, is_deleted : BOOLEAN]

JobTaskSeqs == UNION {[1..n -> JobTaskRows] : n \in 0..MaxTasks}

InitJob ==
    /\ price_controls = [p \in PCIds |->
                           PriceControlRow(p, IF p = 1 THEN "live" ELSE "absent")]
    /\ customers = [c \in Customers |->
                      [kind |-> "customer", content_object |-> NoPlan,
                       spent_this_month |-> DefaultSpent]]
    /\ parts = [p \in Parts |-> [price |-> 1000, quantity |-> 5]]
    /\ \E s \in JOB_STATUS, ts \in JobTaskSeqs :
          jobs = [j \in Jobs |->
                    [type |-> "1", status |-> s, is_deleted |-> FALSE,
                     customer |-> 1, hourly_pay |-> 4000,
                     jobtasks |-> ts,
                     jobparts |-> <<[part |-> 1, quantity |-> 3, is_deleted |-> FALSE,
                                     sufficient_quantity |-> TRUE]>>]]
    /\ orders = [o \in Orders |->
                    [customer |-> 1, is_deleted |-> FALSE,
                     sellparts |-> <<[part |-> 1, quantity |-> 2, is_deleted |-> FALSE]>>]]
    /\ invoices = <<>>
    /\ instances = <<>>
    /\ result = [op |-> "init", inv |-> 0, ok |-> TRUE, err |-> "", val |-> 0,
                 none |-> FALSE, d |-> ""]

\* A JobTask's status field is assigned and the row saved.
SetJobTaskStatus(j, k, s) ==
    /\ k \in 1..Len(jobs[j].jobtasks)
    /\ jobs[j].jobtasks[k].status # s
    /\ jobs' = [jobs EXCEPT ![j].jobtasks[k].status = s]
    /\ result' = Outcome("set_task_status", 0, Ok(j), "")
    /\ UNCHANGED <<price_controls, customers, parts, orders, invoices, instances>>

\* A JobTask's soft-delete flag is flipped and the row saved.
SetJobTaskDeleted(j, k) ==
    /\ k \in 1..Len(jobs[j].jobtasks)
    /\ jobs' = [jobs EXCEPT ![j].jobtasks[k].is_deleted = ~@]
    /\ result' = Outcome("set_task_deleted", 0, Ok(j), "")
    /\ UNCHANGED <<price_controls, customers, parts, orders, invoices, instances>>

\* Job.update_status on job j; d carries the returned status.
UpdateStatus(j) ==
    /\ jobs' = [jobs EXCEPT ![j].status = JobUpdateStatus(jobs[j])]
    /\ result' = Outcome("update_status", 0, Ok(j), JobUpdateStatus(jobs[j]))
    /\ UNCHANGED <<price_controls, customers, parts, orders, invoices, instances>>

NextJob ==
    \/ \E j \in Jobs, k \in 1..MaxTasks, s \in TASK_STATUS : SetJobTaskStatus(j, k, s)
    \/ \E j \in Jobs, k \in 1..MaxTasks : SetJobTaskDeleted(j, k)
    \/ \E j \in Jobs : UpdateStatus(j)

SpecJob == InitJob /\ [][NextJob]_vars

----------------------------------------------------------------------------
(* Subtotals of a job and of a parts order: the join rows, their soft-delete *)
(* flags and the markup change between the price queries.                    *)

\* Recorded JobTask durations, in seconds: half an hour, two hours, 25 hours.
Durations == {1800, 7200, 90000}

\* Part.price, in pence.
PartPrices == {1000, 1999}

\* PriceControl.marked_up, in 1/100 percent.
MarkUps == {1000, 1250}

InitSubtotal ==
    /\ price_controls = [p \in PCIds |->
                           PriceControlRow(p, IF p = 1 THEN "live" ELSE "absent")]
    /\ customers = [c \in Customers |->
                      [kind |-> "accountholder", content_object |-> NoPlan,
                       spent_this_month |-> DefaultSpent]]
    /\ \E price \in PartPrices :
          parts = [p \in Parts |-> [price |-> price, quantity |-> 5]]
    /\ \E d1 \in Durations, d2 \in Durations :
          jobs = [j \in Jobs |->
                    [type |-> "1", status |-> "1", is_deleted |-> FALSE,
                     customer |-> 1, hourly_pay |-> 4000,
                     jobtasks |-> <<[duration |-> d1, status |-> "1", is_deleted |-> FALSE],
                                    [duration |-> d2, status |-> "1", is_deleted |-> FALSE]>>,
                     jobparts |-> <<[part |-> 1, quantity |-> 3, is_deleted |-> FALSE,
                                     sufficient_quantity |-> TRUE],
                                    [part |-> 1, quantity |-> 1, is_deleted |-> FALSE,
                                     sufficient_quantity |-> TRUE]>>]]
    /\ orders = [o \in Orders |->
                    [customer |-> 1, is_deleted |-> FALSE,
                     sellparts |-> <<[part |-> 1, quantity |-> 2, is_deleted |-> FALSE],
                                     [part |-> 1, quantity |-> 1, is_deleted |-> FALSE]>>]]
    /\ invoices = <<>>
    /\ instances = <<>>
    /\ result = [op |-> "init", inv |-> 0, ok |-> TRUE, err |-> "", val |-> 0,
                 none |-> FALSE, d |-> ""]

\* A JobPart's soft-delete flag is flipped and the row saved.
SetJobPartDeleted(j, k) ==
    /\ jobs' = [jobs EXCEPT ![j].jobparts[k].is_deleted = ~@]
    /\ result' = Outcome("set_jobpart_deleted", 0, Ok(j), "")
    /\ UNCHANGED <<price_controls, customers, parts, orders, invoices, instances>>

\* A SellPart's soft-delete flag is flipped and the row saved.
SetSellPartDeleted(o, k) ==
    /\ orders' = [orders EXCEPT ![o].sellparts[k].is_deleted = ~@]
    /\ result' = Outcome("set_sellpart_deleted", 0, Ok(o), "")
    /\ UNCHANGED <<price_controls, customers, parts, jobs, invoices, instances>>

\* The markup of the PriceControl row is changed and the row saved.
SetMarkedUp(p, m) ==
    /\ price_controls[p].exists
    /\ price_controls[p].marked_up # m
    /\ price_controls' = [price_controls EXCEPT ![p].marked_up = m]
    /\ result' = Outcome("set_marked_up", 0, Ok(m), "")
    /\ UNCHANGED <<customers, parts, jobs, orders, invoices, instances>>

GetDuration(j) ==
    /\ result' = Outcome("job_get_duration", 0, Ok(JobGetDuration(j)), "")
    /\ UNCHANGED <<price_controls, customers, parts, jobs, orders, invoices, instances>>

GetLabourPrice(j) ==
    /\ result' = Outcome("job_get_labour_price", 0, Ok(JobGetLabourPrice(j)), "")
    /\ UNCHANGED <<price_controls, customers, parts, jobs, orders, invoices, instances>>

GetJobPartsPrice(j) ==
    /\ result' = Outcome("job_get_parts_price", 0, Ok(JobGetPartsPrice(j)), "")
    /\ UNCHANGED <<price_controls, customers, parts, jobs, orders, invoices, instances>>

GetJobPrice(j) ==
    /\ result' = Outcome("job_get_price", 0, Ok(JobGetPrice(j)), "")
    /\ UNCHANGED <<price_controls, customers, parts, jobs, orders, invoices, instances>>

GetOrderPartsPrice(o) ==
    /\ result' = Outcome("order_get_parts_price", 0, OrderGetPartsPrice(o), "")
    /\ UNCHANGED <<price_controls, customers, parts, jobs, orders, invoices, instances>>

GetOrderPrice(o) ==
    /\ result' = Outcome("order_get_price", 0, OrderGetPrice(o), "")
    /\ UNCHANGED <<price_controls, customers, parts, jobs, orders, invoices, instances>>

NextSubtotal ==
    \/ \E j \in Jobs : \E k \in 1..Len(jobs[j].jobtasks) : SetJobTaskDeleted(j, k)
    \/ \E j \in Jobs : \E k \in 1..Len(jobs[j].jobparts) : SetJobPartDeleted(j, k)
    \/ \E o \in Orders : \E k \in 1..Len(orders[o].sellparts) : SetSellPartDeleted(o, k)
    \/ \E p \in PCIds, m \in MarkUps : SetMarkedUp(p, m)
    \/ \E j \in Jobs : GetDuration(j)
    \/ \E j \in Jobs : GetLabourPrice(j)
    \/ \E j \in Jobs : GetJobPartsPrice(j)
    \/ \E j \in Jobs : GetJobPrice(j)
    \/ \E o \in Orders : GetOrderPartsPrice(o)
    \/ \E o \in Orders : GetOrderPrice(o)

SpecSubtotal == InitSubtotal /\ [][NextSubtotal]_vars

----------------------------------------------------------------------------
(* RandomUUIDModel.save, on a Part: the instance's uuid and version, with    *)
(* edits of the instance between the saves.                                  *)

\* Values uuid.uuid4().hex can return; "" is the field's default.
UUIDs == {"a", "b", "c"}

\* The quantities set_new_quantity is called with.
Quantities == {0, 2, 5}

\* save with a new uuid drawn at every call.
UuidOnSave_AlwaysFresh(uuid, fresh) == fresh

\* if not self.uuid: self.uuid = uuid.uuid4().hex
UuidOnSave(uuid, fresh) == IF uuid = "" THEN fresh ELSE uuid

\* RandomUUIDModel.save on a row; the version field counts the saves.
RandomUUIDModelSave(row, fresh) ==
    [row EXCEPT !.uuid = UuidOnSave(@, fresh), !.version = @ + 1]

\* A Part constructed and not saved yet.
InitUuid ==
    /\ price_controls = [p \in PCIds |->
                           PriceControlRow(p, IF p = 1 THEN "live" ELSE "absent")]
    /\ customers = [c \in Customers |->
                      [kind |-> "accountholder", content_object |-> NoPlan,
                       spent_this_month |-> DefaultSpent]]
    /\ \E price \in PartPrices, q \in Quantities :
          parts = [p \in Parts |->
                     [price |-> price, quantity |-> q, uuid |-> "", version |-> 0]]
    /\ jobs = [j \in Jobs |->
                 [type |-> "1", status |-> "3", is_deleted |-> FALSE,
                  customer |-> 1, hourly_pay |-> 4000,
                  jobtasks |-> <<>>, jobparts |-> <<>>]]
    /\ orders = [o \in Orders |-> [customer |-> 1, is_deleted |-> FALSE, sellparts |-> <<>>]]
    /\ invoices = <<>>
    /\ instances = <<>>
    /\ result = [op |-> "init", inv |-> 0, ok |-> TRUE, err |-> "", val |-> 0,
                 none |-> FALSE, d |-> ""]

\* part.save(); d carries the uuid of the instance after the call.
Save(p) ==
    /\ parts[p].version < MaxSaves
    /\ \E fresh \in UUIDs :
          /\ parts' = [parts EXCEPT ![p] = RandomUUIDModelSave(@, fresh)]
          /\ result' = Outcome("save", 0, Ok(p), UuidOnSave(parts[p].uuid, fresh))
    /\ UNCHANGED <<price_controls, customers, jobs, orders, invoices, instances>>

\* Part.set_new_quantity
SetNewQuantity(p, quantity) ==
    /\ parts' = [parts EXCEPT ![p].quantity = quantity]
    /\ result' = Outcome("set_new_quantity", 0, Ok(quantity), "")
    /\ UNCHANGED <<price_controls, customers, jobs, orders, invoices, instances>>

NextUuid ==
    \/ \E p \in Parts : Save(p)
    \/ \E p \in Parts, q \in Quantities : SetNewQuantity(p, q)

SpecUuid == InitUuid /\ [][NextUuid]_vars

----------------------------------------------------------------------------
(* Part.quantity under the three quantity methods, on a Part instance that   *)
(* is saved now and then.  The methods assign the instance's field; a save   *)
(* of a negative quantity is left out, its outcome being the database's.     *)

\* Part.increase_quantity_by_one
IncreaseQuantityByOne(p) ==
    /\ parts[p].quantity < MaxQuantity
    /\ parts' = [parts EXCEPT ![p].quantity = @ + 1]
    /\ result' = Outcome("increase_quantity_by_one", 0, Ok(parts[p].quantity + 1), "")
    /\ UNCHANGED <<price_controls, customers, jobs, orders, invoices, instances>>

\* Part.decrease_quantity_by_one
DecreaseQuantityByOne(p) ==
    /\ parts[p].quantity > -MaxQuantity
    /\ parts' = [parts EXCEPT ![p].quantity = @ - 1]
    /\ result' = Outcome("decrease_quantity_by_one", 0, Ok(parts[p].quantity - 1), "")
    /\ UNCHANGED <<price_controls, customers, jobs, orders, invoices, instances>>

NextPart ==
    \/ \E p \in Parts : parts[p].quantity >= 0 /\ Save(p)
    \/ \E p \in Parts, q \in Quantities : SetNewQuantity(p, q)
    \/ \E p \in Parts : IncreaseQuantityByOne(p)
    \/ \E p \in Parts : DecreaseQuantityByOne(p)

SpecPart == InitUuid /\ [][NextPart]_vars

----------------------------------------------------------------------------
(* PriceReport and TimeReport.  A DateTimeField value is held in hours since *)
(* the midnight that begins day 0, a DateField value as a day number; the    *)
(* time zone of the site is not modelled.                                    *)

Mechanics == {1, 2}

\* The TimeReport the averages are asked of: start_date and end_date.
TimeReportRow == [start_date |-> 1, end_date |-> 2]

\* Job.booking_date: noon of the day before the range, of its first day, of
\* its last day, and of the day after it.
BookingDates == {12, 36, 60, 84}

\* DateTimeField.to_python on a date: the midnight that begins the day.
DateToDatetime(date) == date * 24

\* The calendar day of a datetime.
DayOf(datetime) == datetime \div 24

ReportJobRow(type, status, is_deleted, booking_date, mechanic, duration) ==
    [type |-> type, status |-> status, is_deleted |-> is_deleted,
     customer |-> 1, hourly_pay |-> 4000,
     jobtasks |-> <<[duration |-> duration, status |-> "1", is_deleted |-> FALSE]>>,
     jobparts |-> <<[part |-> 1, quantity |-> 3, is_deleted |-> FALSE,
                     sufficient_quantity |-> TRUE]>>,
     booking_date |-> booking_date, mechanic |-> mechanic]

\* Two jobs in the database: the first of any type and mechanic, the second an
\* MOT of mechanic 1; each Complete or Pending, live or soft-deleted, booked at
\* any of the BookingDates.
InitReport ==
    /\ price_controls = [p \in PCIds |->
                           PriceControlRow(p, IF p = 1 THEN "live" ELSE "absent")]
    /\ customers = [c \in Customers |->
                      [kind |-> "accountholder", content_object |-> NoPlan,
                       spent_this_month |-> DefaultSpent]]
    /\ parts = [p \in Parts |-> [price |-> 1000, quantity |-> 5]]
    /\ \E t \in JOB_TYPE, m \in Mechanics,
          s1 \in {"1", "3"}, s2 \in {"1", "3"},
          del1 \in BOOLEAN, del2 \in BOOLEAN,
          b1 \in BookingDates, b2 \in BookingDates :
          jobs = <<ReportJobRow(t, s1, del1, b1, m, 9000),
                   ReportJobRow("1", s2, del2, b2, 1, 3600)>>
    /\ orders = [o \in Orders |->
                    [customer |-> 1, is_deleted |-> FALSE,
                     sellparts |-> <<[part |-> 1, quantity |-> 2, is_deleted |-> FALSE]>>]]
    /\ invoices = <<>>
    /\ instances = <<>>
    /\ result = [op |-> "init", inv |-> 0, ok |-> TRUE, err |-> "", val |-> 0,
                 none |-> FALSE, d |-> ""]

\* Job.objects.filter(is_deleted=False)
LiveJobs == {j \in 1..Len(jobs) : ~jobs[j].is_deleted}

\* total_price / job_count of the overall PriceReport averages: Python's true
\* division with no test of the count.  The quotient is not rounded; it is
\* held in 1/100 of a penny, exact for the job counts of the model.
PriceAverage(total_price, job_count) ==
    IF job_count = 0 THEN Raise("ZeroDivisionError")
    ELSE Ok((total_price * 100) \div job_count)

\* PriceReport.get_average_labour_price
PriceReportGetAverageLabourPrice ==
    PriceAverage(SumSeq([j \in 1..Len(jobs) |->
                           IF j \in LiveJobs THEN JobGetLabourPrice(j) ELSE 0]),
                 Cardinality(LiveJobs))

\* PriceReport.get_average_price
PriceReportGetAveragePrice ==
    PriceAverage(SumSeq([j \in 1..Len(jobs) |->
                           IF j \in LiveJobs THEN JobGetPrice(j) ELSE 0]),
                 Cardinality(LiveJobs))

\* PriceReport.get_average_labour_price_per_mechanic: the loop is over
\* mechanic.job_set itself, a related manager, which is not iterable.
PriceReportGetAverageLabourPricePerMechanic(mechanic) == Raise("TypeError")

\* PriceReport.get_average_price_per_mechanic: the same loop.
PriceReportGetAveragePricePerMechanic(mechanic) == Raise("TypeError")

\* filter(is_deleted=False, booking_date__gte=start_date,
\* booking_date__lte=end_date, status='1'), with type=... in the averages of
\* one job type and on mechanic.job_set in the averages of one mechanic
\* (type "" and mechanic 0: no such restriction).
TimeReportJobs(mechanic, type) ==
    {j \in 1..Len(jobs) :
        /\ ~jobs[j].is_deleted
        /\ jobs[j].booking_date >= DateToDatetime(TimeReportRow.start_date)
        /\ jobs[j].booking_date <= DateToDatetime(TimeReportRow.end_date)
        /\ jobs[j].status = "1"
        /\ type # "" => jobs[j].type = type
        /\ mechanic # 0 => jobs[j].mechanic = mechanic}

\* total_time of a TimeReport average: the get_duration of each job of js.
TotalTime(js) ==
    SumSeq([j \in 1..Len(jobs) |-> IF j \in js THEN JobGetDuration(j) ELSE 0])

\* The TimeReport averages, in 1/100 hour: get_average_time,
\* get_average_time_for_mot / _repair / _annual, and their per-mechanic forms.
TimeReportGetAverageTime(mechanic, type) ==
    LET js == TimeReportJobs(mechanic, type)
    IN  IF Cardinality(js) = 0 THEN 0
        ELSE RoundDiv(TotalTime(js), Cardinality(js))

GetAverageLabourPrice ==
    /\ result' = Outcome("get_average_labour_price", 0, PriceReportGetAverageLabourPrice, "")
    /\ UNCHANGED <<price_controls, customers, parts, jobs, orders, invoices, instances>>

GetAveragePrice ==
    /\ result' = Outcome("get_average_price", 0, PriceReportGetAveragePrice, "")
    /\ UNCHANGED <<price_controls, customers, parts, jobs, orders, invoices, instances>>

\* inv carries the mechanic the call is given.
GetAverageLabourPricePerMechanic(m) ==
    /\ result' = Outcome("get_average_labour_price_per_mechanic", m,
                         PriceReportGetAverageLabourPricePerMechanic(m), "")
    /\ UNCHANGED <<price_controls, customers, parts, jobs, orders, invoices, instances>>

GetAveragePricePerMechanic(m) ==
    /\ result' = Outcome("get_average_price_per_mechanic", m,
                         PriceReportGetAveragePricePerMechanic(m), "")
    /\ UNCHANGED <<price_controls, customers, parts, jobs, orders, invoices, instances>>

\* A TimeReport average: inv carries the mechanic (0: overall), d the job type
\* ("": every type).
GetAverageTime(m, t) ==
    /\ result' = Outcome("get_average_time", m, Ok(TimeReportGetAverageTime(m, t)), t)
    /\ UNCHANGED <<price_controls, customers, parts, jobs, orders, invoices, instances>>

NextReport ==
    \/ GetAverageLabourPrice
    \/ GetAveragePrice
    \/ \E m \in Mechanics : GetAverageLabourPricePerMechanic(m)
    \/ \E m \in Mechanics : GetAveragePricePerMechanic(m)
    \/ \E m \in Mechanics \cup {0}, t \in JOB_TYPE \cup {""} : GetAverageTime(m, t)

SpecReport == InitReport /\ [][NextReport]_vars

----------------------------------------------------------------------------
(* Job.sufficient_quantity over the JobPart rows of a job, in the order the  *)
(* query returns them.                                                       *)

\* The JobPart rows a job can have: up to MaxJobParts rows, each with or
\* without sufficient stock, live or soft-deleted.
JobPartRows ==
    [part : Parts, quantity : {1}, is_deleted : BOOLEAN, sufficient_quantity : BOOLEAN]

JobPartSeqs == UNION {[1..n -> JobPartRows] : n \in 0..MaxJobParts}

\* Job.sufficient_quantity: the loop over
\* JobPart.objects.filter(job=self, is_deleted=False) returns in its first
\* iteration; with no row the method falls off its end and returns None.
JobSufficientQuantity(job) ==
    LET live == SelectSeq(job.jobparts, LAMBDA jp : ~jp.is_deleted)
    IN  IF live = <<>> THEN "None"
        ELSE IF live[1].sufficient_quantity = FALSE THEN "False"
        ELSE "True"

InitJobParts ==
    /\ price_controls = [p \in PCIds |->
                           PriceControlRow(p, IF p = 1 THEN "live" ELSE "absent")]
    /\ customers = [c \in Customers |->
                      [kind |-> "customer", content_object |-> NoPlan,
                       spent_this_month |-> DefaultSpent]]
    /\ parts = [p \in Parts |-> [price |-> 1000, quantity |-> 5]]
    /\ \E jps \in JobPartSeqs :
          jobs = [j \in Jobs |->
                    [type |-> "1", status |-> "3", is_deleted |-> FALSE,
                     customer |-> 1, hourly_pay |-> 4000,
                     jobtasks |-> <<>>,
                     jobparts |-> jps]]
    /\ orders = [o \in Orders |-> [customer |-> 1, is_deleted |-> FALSE, sellparts |-> <<>>]]
    /\ invoices = <<>>
    /\ instances = <<>>
    /\ result = [op |-> "init", inv |-> 0, ok |-> TRUE, err |-> "", val |-> 0,
                 none |-> FALSE, d |-> ""]

\* A JobPart's sufficient_quantity flag is flipped and the row saved.
SetJobPartSufficientQuantity(j, k) ==
    /\ jobs' = [jobs EXCEPT ![j].jobparts[k].sufficient_quantity = ~@]
    /\ result' = Outcome("set_sufficient_quantity", 0, Ok(j), "")
    /\ UNCHANGED <<price_controls, customers, parts, orders, invoices, instances>>

\* job.sufficient_quantity(); d carries the returned value, none a returned
\* None.
SufficientQuantity(j) ==
    LET r == JobSufficientQuantity(jobs[j])
    IN  /\ result' = Outcome("sufficient_quantity", 0,
                             IF r = "None" THEN ReturnNone ELSE Ok(j),
                             IF r = "None" THEN "" ELSE r)
        /\ UNCHANGED <<price_controls, customers, parts, jobs, orders, invoices, instances>>

NextJobParts ==
    \/ \E j \in Jobs : \E k \in 1..Len(jobs[j].jobparts) : SetJobPartDeleted(j, k)
    \/ \E j \in Jobs : \E k \in 1..Len(jobs[j].jobparts) : SetJobPartSufficientQuantity(j, k)
    \/ \E j \in Jobs : SufficientQuantity(j)

SpecJobParts == InitJobParts /\ [][NextJobParts]_vars

----------------------------------------------------------------------------
(* Properties *)

\* The customer row an invoice is billed to: the job's vehicle's customer,
\* else the order's customer; 0 when the invoice names neither.
CustomerOf(i) ==
    IF invoices[i].job_done # 0 THEN jobs[invoices[i].job_done].customer
    ELSE IF invoices[i].part_order # 0 THEN orders[invoices[i].part_order].customer
    ELSE 0

PlanOf(i) == IF CustomerOf(i) = 0 THEN NoPlan ELSE customers[CustomerOf(i)].content_object

\* grand_total * (1 - rate / 100), rounded to 2 decimals
Discounted(grand_total, rate) == RoundDiv(grand_total * (10000 - rate), 10000)

\* What invoice.get_customer().spent_this_month reads on the invoice object.
ObservedSpent(i) == InvoiceGetCustomer(i, instances[i]).row.spent_this_month

PriceQueries == {"get_pre_discount_price", "get_price"}

\* The PriceControl rows that are not soft-deleted.
LivePriceControls == {p \in PCIds : price_controls[p].exists /\ ~price_controls[p].is_deleted}

\* The configuration pricing is specified for: one PriceControl row, live.
OnePriceControl ==
    /\ Cardinality(LivePriceControls) = 1
    /\ \A p \in PCIds : price_controls[p].exists => p \in LivePriceControls

\* C1: for an invoice of a customer on a Flexible plan with rate r, get_price
\* returns grand_total * (1 - r / 100) rounded to 2 decimals, grand_total being
\* get_pre_discount_price.
C1_FlexibleRateApplied ==
    \A i \in InvoiceIds :
        LET pre == InvoiceGetPreDiscountPrice(i)
        IN  /\ result.op = "get_price" /\ result.inv = i /\ result.ok
            /\ PlanOf(i).model = "flexiblediscount"
            /\ OnePriceControl
            => result.val = Discounted(pre.val, PlanOf(i).discount)

\* C2: whatever price queries ran on an invoice of a Flexible-plan customer, the
\* customer's spent_this_month has grown by the invoice's pre-discount grand
\* total at most once.
C2_SpendAppliedAtMostOnce ==
    \A i \in InvoiceIds :
        LET pre == InvoiceGetPreDiscountPrice(i)
        IN  /\ PlanOf(i).model = "flexiblediscount"
            /\ OnePriceControl
            => ObservedSpent(i) <= DefaultSpent + pre.val

\* C3: once get_price has priced an invoice of a Flexible-plan customer, the
\* customer's stored spent_this_month holds the pre-discount grand total, which
\* a fresh lookup of the customer reads.
C3_SpendStored ==
    \A i \in InvoiceIds :
        LET pre == InvoiceGetPreDiscountPrice(i)
        IN  /\ result.op = "get_price" /\ result.inv = i /\ result.ok
            /\ PlanOf(i).model = "flexiblediscount"
            /\ OnePriceControl
            => customers[CustomerOf(i)].spent_this_month >= DefaultSpent + pre.val

\* C4: for an invoice whose customer has no discount plan (a Dropin, or an
\* account holder with none attached), get_discount returns 'none' without
\* raising and get_price returns the pre-discount grand total.
C4_NoPlanResolvesNone ==
    \A i \in InvoiceIds :
        LET pre == InvoiceGetPreDiscountPrice(i)
        IN  /\ result.inv = i
            /\ CustomerOf(i) # 0
            /\ PlanOf(i).model = "none"
            => /\ result.op = "get_discount" => result.ok /\ result.d = "none"
               /\ result.op = "get_price" /\ OnePriceControl
                    => result.ok /\ result.val = pre.val

\* C5: for an invoice of a customer on a Fixed plan with rate r, get_price
\* returns round(grand_total * (1 - r / 100), 2) and discount_value returns
\* grand_total minus that final total.
C5_FixedPriceAndDiscountValue ==
    \A i \in InvoiceIds :
        LET pre == InvoiceGetPreDiscountPrice(i)
            final == Discounted(pre.val, PlanOf(i).discount)
        IN  /\ result.inv = i
            /\ PlanOf(i).model = "fixeddiscount"
            /\ pre.ok
            => /\ result.op = "get_price" => result.ok /\ result.val = final
               /\ result.op = "discount_value"
                    => result.ok /\ result.val = pre.val - final

\* C5's case: grand total 156.00 on Fixed 10 % gives discount_value 15.60.
C5_Witness ==
    /\ result.op = "discount_value" /\ result.ok
    /\ result.inv \in InvoiceIds
    /\ PlanOf(result.inv) = FixedDiscount(1000)
    /\ InvoiceGetPreDiscountPrice(result.inv) = Ok(15600)
    /\ result.val = 1560

\* The rate a Variable plan gives an invoice, by the kind of what it bills.
RateByKind(i) ==
    IF invoices[i].job_done # 0
    THEN CASE jobs[invoices[i].job_done].type = "1" -> PlanOf(i).mot_discount
           [] jobs[invoices[i].job_done].type = "2" -> PlanOf(i).repair_discount
           [] jobs[invoices[i].job_done].type = "3" -> PlanOf(i).annual_discount
    ELSE PlanOf(i).parts_discount

GrandTotalUnder(i, pc) ==
    LET sub == IF invoices[i].job_done # 0
               THEN JobGetPrice(invoices[i].job_done)
               ELSE LET sps == orders[invoices[i].part_order].sellparts
                    IN  SumSeq([k \in 1..Len(sps) |->
                            MarkedUp(parts[sps[k].part].price, pc.marked_up)
                              * sps[k].quantity])
    IN  sub + Vat(sub, pc.vat)

\* C7: pricing reads the single PriceControl row that is not soft-deleted: with
\* exactly one such row (and any number of soft-deleted ones) VAT and markup
\* come from it, and with none or several every computation that needs it
\* fails.
C7_SingleLivePriceControl ==
    \A i \in InvoiceIds :
        /\ result.inv = i /\ result.op \in PriceQueries
        /\ (invoices[i].job_done # 0 \/ invoices[i].part_order # 0)
        => IF Cardinality(LivePriceControls) = 1
           THEN result.op = "get_pre_discount_price"
                  => /\ result.ok
                     /\ result.val =
                          GrandTotalUnder(i,
                             price_controls[CHOOSE p \in LivePriceControls : TRUE])
           ELSE ~result.ok

\* C8: pricing an invoice with neither job_done nor part_order fails:
\* get_pre_discount_price and get_price return no value, None included.
C8_NeitherSetFails ==
    \A i \in InvoiceIds :
        /\ result.inv = i /\ result.op \in PriceQueries
        /\ invoices[i].job_done = 0 /\ invoices[i].part_order = 0
        => ~result.ok

\* C9: every invoice has exactly one of job_done and part_order set, from its
\* creation on.
C9_ExactlyOneTarget ==
    \A i \in InvoiceIds :
        (invoices[i].job_done # 0) # (invoices[i].part_order # 0)

C11_PaidIsTerminal ==
    [][\A i \in InvoiceIds :
         /\ result'.op = "mark_paid" /\ result'.inv = i
              => result'.ok /\ invoices'[i].paid
         /\ invoices[i].paid
              => /\ invoices'[i].paid
                 /\ invoices'[i].reminder_phase = invoices[i].reminder_phase]_vars

\* C11's case: advance_reminder called on a paid invoice that had not reached
\* the warning phase.
C11_Witness ==
    /\ result.op = "advance_reminder" /\ result.ok /\ result.val = 0
    /\ result.inv \in InvoiceIds
    /\ invoices[result.inv].paid
    /\ invoices[result.inv].reminder_phase = "2"

\* The step is a call of update_status on job j.
UpdateStatusStep(j) == result'.op = "update_status" /\ result'.val = j

\* C12 as stated: update_status makes a job Complete only when every JobTask
\* row linked to it, soft-deleted rows included, is Complete.
C12_CompleteOnlyIfEveryLinkedTaskComplete ==
    [][\A j \in Jobs :
         UpdateStatusStep(j) /\ jobs[j].status # "1" /\ jobs'[j].status = "1"
            => \A k \in 1..Len(jobs[j].jobtasks) : jobs[j].jobtasks[k].status = "1"]_vars

\* C12, amended: update_status makes a job Complete only when every JobTask
\* row of the job that is not soft-deleted is Complete; while a live JobTask is
\* Started or Pending the call leaves the job's status as it was.
C12_CompleteOnlyIfEveryLiveTaskComplete ==
    [][\A j \in Jobs :
         UpdateStatusStep(j) =>
            /\ jobs[j].status # "1" /\ jobs'[j].status = "1"
                 => \A k \in 1..Len(jobs[j].jobtasks) :
                       jobs[j].jobtasks[k].is_deleted \/ jobs[j].jobtasks[k].status = "1"
            /\ (\E k \in 1..Len(jobs[j].jobtasks) :
                   ~jobs[j].jobtasks[k].is_deleted /\ jobs[j].jobtasks[k].status # "1")
                 => jobs'[j].status = jobs[j].status
            /\ result'.d = jobs'[j].status]_vars

\* C12's case: update_status has returned Pending for a job with one live
\* Complete JobTask and one live JobTask that is not Complete.
C12_Witness ==
    /\ result.op = "update_status" /\ result.d = "3"
    /\ \E j \in Jobs :
          /\ result.val = j
          /\ \E k \in 1..Len(jobs[j].jobtasks) :
                ~jobs[j].jobtasks[k].is_deleted /\ jobs[j].jobtasks[k].status = "1"
          /\ \E k \in 1..Len(jobs[j].jobtasks) :
                ~jobs[j].jobtasks[k].is_deleted /\ jobs[j].jobtasks[k].status # "1"

\* The plan variants an account holder's generic link may point to
\* (AccountHolder.limit), and the name get_discount gives each.
PlanVariants == {"fixeddiscount", "flexiblediscount", "variablediscount"}

VariantName(plan) ==
    CASE plan.model = "fixeddiscount" -> "fixed"
      [] plan.model = "flexiblediscount" -> "flexible"
      [] plan.model = "variablediscount" -> "variable"
      [] OTHER -> "none"

AccountHolderKinds == {"accountholder", "businesscustomer"}

\* C13: every AccountHolder and BusinessCustomer has at most one discount plan
\* attached, of one of the variants Fixed, Flexible, Variable, and get_discount
\* on an invoice of that customer reports the variant of the attached plan.
C13_OnePlanVariantReported ==
    /\ \A c \in Customers :
          customers[c].kind \in AccountHolderKinds
             => /\ customers[c].content_object \in Plans
                /\ Cardinality({v \in PlanVariants :
                                   customers[c].content_object.model = v}) <= 1
    /\ \A i \in InvoiceIds :
          /\ result.op = "get_discount" /\ result.inv = i
          /\ CustomerOf(i) # 0
          /\ customers[CustomerOf(i)].kind \in AccountHolderKinds
          => result.ok /\ result.d = VariantName(PlanOf(i))

\* C13's case: get_discount has reported 'variable' for a BusinessCustomer on a
\* Variable plan.
C13_Witness ==
    /\ result.op = "get_discount" /\ result.ok /\ result.d = "variable"
    /\ result.inv \in InvoiceIds
    /\ CustomerOf(result.inv) # 0
    /\ customers[CustomerOf(result.inv)].kind = "businesscustomer"
    /\ PlanOf(result.inv).model = "variablediscount"

\* The sum of f over the indices of a sequence of rows (at most three rows).
RowSum(rows, f(_)) ==
    LET term(k) == IF k <= Len(rows) THEN f(rows[k]) ELSE 0
    IN  term(1) + term(2) + term(3)

\* C14: Job.get_parts_price is the sum over the job's JobPart rows of the
\* part's raw unit price times the row's quantity, and Job.get_price is the
\* labour price plus that parts price.
C14_JobSubtotalAtRawPrice ==
    \A j \in Jobs :
        LET raw(jp) == parts[jp.part].price * jp.quantity
            parts_price == RowSum(jobs[j].jobparts, raw)
        IN  /\ result.op = "job_get_parts_price" => result.ok /\ result.val = parts_price
            /\ result.op = "job_get_price"
                 => result.ok /\ result.val = JobGetLabourPrice(j) + parts_price

\* C14's case: get_price on a job with parts, under a markup that would have
\* given another subtotal.
C14_Witness ==
    /\ result.op = "job_get_price" /\ result.ok
    /\ \E j \in Jobs :
          /\ Len(jobs[j].jobparts) = 2
          /\ parts[1].price = 1999
          /\ result.val = JobGetLabourPrice(j) + 4 * 1999
    /\ price_controls[1].marked_up > 0

\* C15: CustomerPartsOrder.get_price (and get_parts_price) is the sum over the
\* order's SellPart rows of the marked-up price times the quantity, where the
\* marked-up price is round(price * (1 + marked_up / 100), 2) under the
\* PriceControl row as it is at the time of the query.
C15_OrderSubtotalAtCurrentMarkup ==
    \A o \in Orders :
        LET pc == price_controls[CHOOSE p \in PCIds : price_controls[p].exists]
            markedup(sp) ==
                RoundDiv(parts[sp.part].price * (10000 + pc.marked_up), 10000) * sp.quantity
        IN  result.op \in {"order_get_price", "order_get_parts_price"}
               => result.ok /\ result.val = RowSum(orders[o].sellparts, markedup)

\* C15's case: the order priced after marked_up was changed from 10.00 to
\* 12.50: three parts at 19.99 come to 3 * 22.49.
C15_Witness ==
    /\ result.op = "order_get_price" /\ result.ok
    /\ price_controls[1].marked_up = 1250
    /\ parts[1].price = 1999
    /\ result.val = 3 * 2249

\* C16: Job.get_duration is the sum over the job's JobTask rows of the whole
\* recorded duration, in hours to two decimals, whatever the duration (24 hours
\* or more included), and get_labour_price is that duration times the
\* mechanic's hourly pay, to two decimals.
C16_FullDurationCounted ==
    \A j \in Jobs :
        LET whole(t) == t.duration
            hours == RoundDiv(RowSum(jobs[j].jobtasks, whole), 36)
        IN  /\ result.op = "job_get_duration" => result.val = hours
            /\ result.op = "job_get_labour_price"
                 => result.val = RoundDiv(hours * jobs[j].hourly_pay, 100)

\* C17: a soft-deleted JobTask, JobPart or SellPart contributes nothing to
\* Job.get_duration, Job.get_parts_price and
\* CustomerPartsOrder.get_parts_price.  (Stated for durations under a day,
\* which get_duration counts in full.)
C17_SoftDeletedRowsExcluded ==
    LET live_seconds(t) == IF t.is_deleted THEN 0 ELSE t.duration
        live_raw(jp) == IF jp.is_deleted THEN 0 ELSE parts[jp.part].price * jp.quantity
        live_markedup(sp) ==
            IF sp.is_deleted THEN 0
            ELSE MarkedUp(parts[sp.part].price, PriceControlGet.val.marked_up) * sp.quantity
        under_a_day(j) ==
            \A k \in 1..Len(jobs[j].jobtasks) : jobs[j].jobtasks[k].duration < 86400
    IN  /\ \A j \in Jobs :
              /\ (result.op = "job_get_duration" /\ under_a_day(j))
                    => result.val = RoundDiv(RowSum(jobs[j].jobtasks, live_seconds), 36)
              /\ (result.op = "job_get_parts_price")
                    => result.val = RowSum(jobs[j].jobparts, live_raw)
        /\ \A o \in Orders :
              (result.op = "order_get_parts_price" /\ PriceControlGet.ok)
                 => result.val = RowSum(orders[o].sellparts, live_markedup)

\* C18: a save leaves the instance with a uuid, and once an instance has a
\* uuid no later step, saves included, changes it.
C18_UuidAssignedOnce ==
    [][\A p \in Parts :
         /\ result'.op = "save" /\ result'.val = p
              => parts'[p].uuid # "" /\ result'.d = parts'[p].uuid
         /\ parts[p].uuid # "" => parts'[p].uuid = parts[p].uuid]_vars

\* C18's case: an instance saved three times.
C18_Witness ==
    /\ result.op = "save"
    /\ \E p \in Parts : parts[p].version = 3 /\ parts[p].uuid \in UUIDs

\* C19: a PriceReport average asked when no job matches (no live job for the
\* overall averages, no job of the mechanic for the per-mechanic ones) returns
\* 0 and raises nothing.
C19_PriceAverageZeroWithoutJobs ==
    /\ result.op \in {"get_average_labour_price", "get_average_price"}
       /\ LiveJobs = {}
         => result.ok /\ result.val = 0
    /\ result.op \in {"get_average_labour_price_per_mechanic",
                      "get_average_price_per_mechanic"}
       /\ {j \in 1..Len(jobs) : jobs[j].mechanic = result.inv} = {}
         => result.ok /\ result.val = 0

\* C20: a TimeReport average is taken over exactly the live Complete jobs
\* booked on a day from start_date to end_date, both included (of the asked
\* type and mechanic): their total duration over their number, 0 when there is
\* none.
C20_TimeAverageOverInclusiveRange ==
    result.op = "get_average_time" =>
        LET js == {j \in 1..Len(jobs) :
                      /\ ~jobs[j].is_deleted
                      /\ jobs[j].status = "1"
                      /\ DayOf(jobs[j].booking_date) \in
                            TimeReportRow.start_date..TimeReportRow.end_date
                      /\ result.d # "" => jobs[j].type = result.d
                      /\ result.inv # 0 => jobs[j].mechanic = result.inv}
        IN  /\ result.ok
            /\ result.val = IF js = {} THEN 0
                            ELSE RoundDiv(TotalTime(js), Cardinality(js))

\* C21: Job.sufficient_quantity returns False exactly when some non-deleted
\* JobPart of the job has sufficient_quantity False, and True otherwise,
\* whatever the number and order of the JobPart rows.
C21_SufficientQuantityOverAllParts ==
    \A j \in Jobs :
        LET short == \E k \in 1..Len(jobs[j].jobparts) :
                        /\ ~jobs[j].jobparts[k].is_deleted
                        /\ ~jobs[j].jobparts[k].sufficient_quantity
        IN  result.op = "sufficient_quantity"
               => /\ result.ok /\ ~result.none
                  /\ result.d = IF short THEN "False" ELSE "True"

\* C22: an update_status call never moves a job out of Complete, leaves the
\* status alone while some non-deleted JobTask is not Complete, leaves the job
\* with its previous status or Complete, and does not make Complete a job that
\* has no non-deleted JobTask.
C22_UpdateStatusFrame ==
    [][\A j \in Jobs :
         LET live == SelectSeq(jobs[j].jobtasks, LAMBDA t : ~t.is_deleted)
         IN  UpdateStatusStep(j) =>
                /\ jobs[j].status = "1" => jobs'[j].status = "1"
                /\ (\E k \in 1..Len(live) : live[k].status # "1")
                     => jobs'[j].status = jobs[j].status
                /\ jobs'[j].status \in {jobs[j].status, "1"}
                /\ (live = <<>> /\ jobs[j].status # "1") => jobs'[j].status # "1"]_vars

\* C23: after any sequence of increase_quantity_by_one,
\* decrease_quantity_by_one and set_new_quantity calls (the last with
\* non-negative arguments) from a non-negative quantity, the quantity of the
\* part is not negative and no call has returned a negative quantity.
C23_QuantityNonNegative ==
    /\ \A p \in Parts : parts[p].quantity >= 0
    /\ result.op \in {"increase_quantity_by_one", "decrease_quantity_by_one",
                      "set_new_quantity"}
         => result.val >= 0

====
